---- MODULE Spec2Model ----
(***************************************************************************)
(* A model of src/src/App.tsx: the App component of the Todo-App.          *)
(*                                                                         *)
(* The component keeps a list of todos mirrored from a remote table, two   *)
(* text inputs, a wall clock and a stopwatch.  Every remote call is an     *)
(* async handler: the part before the await runs when the user acts (it    *)
(* reads the state the handler closed over at the last render), the store  *)
(* then serves the request, and the part after the await runs when the     *)
(* response arrives.  Requests in flight are served and resumed in any     *)
(* order.                                                                  *)
(***************************************************************************)
EXTENDS Integers, Sequences, FiniteSets, TLC

\* ------------------------------------------------------------------ bounds
MaxLen == 2          \* longest text the user types into the title input
MaxCalls == 3        \* remote calls sent in one session, the first fetch included
MaxElapsed == 4      \* largest stopwatch value explored
MaxTimers == 3       \* interval identifiers the browser can hand out
MaxSeconds == 6005   \* largest elapsed value the stopwatch display is given

\* ------------------------------------------------------------------ values
Chars == {" ", "a"}

RECURSIVE StringsUpTo(_)
StringsUpTo(n) ==
  IF n = 0 THEN {<<>>}
  ELSE LET shorter == StringsUpTo(n - 1)
       IN shorter \cup {Append(s, c) : s \in {t \in shorter : Len(t) = n - 1}, c \in Chars}

\* what the user can type into the title input and into the description
Inputs == StringsUpTo(MaxLen)
Descriptions == {<<>>, <<" ", "a">>}

\* String.prototype.trim: drop the white space at both ends
RECURSIVE trimStart(_)
trimStart(s) == IF s # <<>> /\ Head(s) = " " THEN trimStart(Tail(s)) ELSE s

RECURSIVE trimEnd(_)
trimEnd(s) ==
  IF s # <<>> /\ s[Len(s)] = " " THEN trimEnd(SubSeq(s, 1, Len(s) - 1)) ELSE s

trim(s) == trimEnd(trimStart(s))

\* new Date(): what the wall clock shows is an input
ClockTimes == {0, 1}

\* new Date().toLocaleString(): the stamp a new row carries; nothing reads it
\* back, one value stands for all
Times == {0}

\* type Todo; Undefined is what an index past the end of an array reads
Undefined == [id |-> 0, text |-> <<>>, description |-> <<>>, completed |-> FALSE,
              time |-> 0, undefined |-> TRUE]

Todo(id, text, description, completed, time) ==
  [id |-> id, text |-> text, description |-> description, completed |-> completed,
   time |-> time, undefined |-> FALSE]

\* rows of the table as select('*').order('id', {ascending: false}) returns them
RECURSIVE orderByIdDesc(_)
orderByIdDesc(rows) ==
  IF rows = {} THEN <<>>
  ELSE LET top == CHOOSE r \in rows : \A q \in rows : q.id <= r.id
       IN <<top>> \o orderByIdDesc(rows \ {top})

\* ----------------------------------------------------- the stopwatch text
\* Number.prototype.toString: the decimal digits of a non-negative integer
DigitChars == <<"0", "1", "2", "3", "4", "5", "6", "7", "8", "9">>

RECURSIVE toString(_)
toString(n) ==
  IF n < 10 THEN <<DigitChars[n + 1]>>
  ELSE toString(n \div 10) \o <<DigitChars[(n % 10) + 1]>>

\* String.prototype.padStart(targetLength, padString), padString one character
RECURSIVE padStart(_, _, _)
padStart(s, targetLength, padString) ==
  IF Len(s) >= targetLength THEN s
  ELSE padStart(<<padString>> \o s, targetLength, padString)

\* (mutant) minutes that wrap at the hour
formatStopwatchWraps(seconds) ==
  LET m == padStart(toString((seconds \div 60) % 60), 2, "0")
      s == padStart(toString(seconds % 60), 2, "0")
  IN m \o <<":">> \o s

\* formatStopwatch: Math.floor(seconds / 60) and seconds % 60, each
\* .toString().padStart(2, '0'), joined as `${m}:${s}`
formatStopwatch(seconds) ==
  LET m == padStart(toString(seconds \div 60), 2, "0")
      s == padStart(toString(seconds % 60), 2, "0")
  IN m \o <<":">> \o s

\* ------------------------------------------------------------------- state
VARIABLES
  todos,              \* useState<Todo[]>: the local list
  input,              \* useState(''): the title input
  description,        \* useState(''): the description input
  currentTime,        \* useState(new Date())
  stopwatchTime,      \* useState(0): elapsed seconds
  isRunning,          \* useState(false)
  display,            \* the text of the stopwatch paragraph, as last rendered
  store,              \* the rows of the remote table 'todos'
  nextId,             \* the identifier the store assigns to the next row
  reqs,               \* the remote calls in flight, one per slot
  intervals,          \* the interval timers the browser has scheduled
  clockInterval,      \* the handle the clock effect closed over
  stopwatchInterval,  \* the handle the stopwatch effect closed over (0: undefined)
  mounted,            \* the component is mounted
  calls,              \* remote calls sent so far
  deleted,            \* history: the ids whose removeTodo resumed without error
  created,            \* history: the ids whose addTodo resumed without error
  sequential,         \* history: the fetch came first and no two calls overlapped
  pair,               \* history: two toggles of one position, see observe
  pressed,            \* history: the last Pause or Reset and what it found
  last                \* the handler or callback that ran last

vars == <<todos, input, description, currentTime, stopwatchTime, isRunning, display, store,
          nextId, reqs, intervals, clockInterval, stopwatchInterval, mounted, calls,
          deleted, created, sequential, pair, pressed, last>>

listVars == <<todos, input, description>>
storeVars == <<store, nextId>>
reqVars == <<reqs, calls>>
historyVars == <<deleted, created, sequential, pair>>
timerVars == <<currentTime, stopwatchTime, isRunning, display, intervals, clockInterval,
               stopwatchInterval>>

\* -------------------------------------------------------- calls in flight
\* A call in flight: what the handler closed over (todos, index), what it sent
\* (id, text, description, completed, time) and, once served, the response
\* (phase "ok" with data, or phase "error").  loaded is history: the first
\* fetch had resumed when the call was sent.
\* nothing limits the calls in flight: every call sent may still be pending
Slots == 1..MaxCalls

NoReq == [op |-> "none", phase |-> "none", todos |-> <<>>, index |-> 0, id |-> 0,
          text |-> <<>>, description |-> <<>>, completed |-> FALSE, time |-> 0,
          data |-> <<>>, loaded |-> FALSE]

FetchReq == [NoReq EXCEPT !.op = "fetch", !.phase = "sent"]

AddReq(snapshot, text, desc, time) ==
  [NoReq EXCEPT !.op = "add", !.phase = "sent", !.todos = snapshot, !.text = text,
                !.description = desc, !.time = time]

ToggleReq(snapshot, index) ==
  [NoReq EXCEPT !.op = "toggle", !.phase = "sent", !.todos = snapshot,
                !.index = index, !.id = snapshot[index + 1].id,
                !.completed = ~snapshot[index + 1].completed]

RemoveReq(snapshot, index) ==
  [NoReq EXCEPT !.op = "remove", !.phase = "sent", !.todos = snapshot,
                !.index = index, !.id = snapshot[index + 1].id]

HasFreeSlot == \E k \in Slots : reqs[k].op = "none"
FreeSlot == CHOOSE k \in Slots : reqs[k].op = "none" /\ \A j \in Slots : j < k => reqs[j].op # "none"

\* a handler sends its call into a free slot
send(r) ==
  /\ HasFreeSlot
  /\ calls < MaxCalls
  /\ reqs' = [reqs EXCEPT ![FreeSlot] =
                [r EXCEPT !.loaded = \A k \in Slots : reqs[k].op # "fetch"]]
  /\ calls' = calls + 1

\* ------------------------------------------------------------------ timers
TimerIds == 1..MaxTimers
ids(S) == {t.id : t \in S}
HasFreeTimer(S) == \E i \in TimerIds : i \notin ids(S)
FreeTimer(S) == CHOOSE i \in TimerIds : i \notin ids(S) /\ \A j \in TimerIds : j < i => j \in ids(S)

setInterval(S, cb) == S \cup {[id |-> FreeTimer(S), cb |-> cb]}
clearInterval(S, id) == {t \in S : t.id # id}

\* (mutant) a clock effect that returns no cleanup
clockCleanupLeaks(S, handle) == S

\* the clock effect's cleanup
clockCleanup(S, handle) == clearInterval(S, handle)

\* (mutant) a cleanup that forgets to clear the interval
stopwatchCleanupLeaks(S, handle) == S

\* the stopwatch effect's cleanup: if (interval) clearInterval(interval)
stopwatchCleanup(S, handle) == IF handle # 0 THEN clearInterval(S, handle) ELSE S

\* (mutant) an effect body that schedules the interval whatever the flag is
stopwatchEffectAlways(S, running) == setInterval(S, "stopwatch")

\* the stopwatch effect's body, run with a fresh `interval` (undefined):
\* the timers afterwards, and the handle the new closure holds
stopwatchEffect(S, running) == IF running THEN setInterval(S, "stopwatch") ELSE S

stopwatchHandle(S, running) == IF running THEN FreeTimer(S) ELSE 0

\* (mutant) an effect without its dependency list and without cleanup: it
\* runs again on every setIsRunning
setIsRunningAlways(v) ==
  /\ isRunning' = v
  /\ intervals' = stopwatchEffect(intervals, v)
  /\ stopwatchInterval' = stopwatchHandle(intervals, v)

\* setIsRunning(v) and the re-render it causes: the effect depends on
\* [isRunning], so it re-runs (cleanup first) only when the flag changes
setIsRunning(v) ==
  IF v = isRunning
  THEN UNCHANGED <<isRunning, intervals, stopwatchInterval>>
  ELSE /\ isRunning' = v
       /\ LET cleaned == stopwatchCleanup(intervals, stopwatchInterval)
          IN /\ intervals' = stopwatchEffect(cleaned, v)
             /\ stopwatchInterval' = stopwatchHandle(cleaned, v)

\* the component leaves the screen: every effect's cleanup runs
teardown ==
  /\ mounted' = FALSE
  /\ intervals' = stopwatchCleanup(clockCleanup(intervals, clockInterval), stopwatchInterval)

\* the render of the stopwatch paragraph: {formatStopwatch(stopwatchTime)}
render == display' = IF mounted THEN formatStopwatch(stopwatchTime') ELSE display

\* a render of the list reads todo.id, todo.text, ... of every element: an
\* undefined element throws, and with no error boundary React unmounts the tree
renders(list) == \A i \in 1..Len(list) : ~list[i].undefined

\* setTodos(list) from a resumed handler, and the render that follows
setTodos(list) ==
  /\ todos' = list
  /\ IF renders(list)
     THEN UNCHANGED <<mounted, intervals>>
     ELSE teardown

\* ------------------------------------------------------ history variables
\* They record what happened and decide nothing.  `deleted` collects the ids
\* whose delete succeeded.  `pair` follows a toggle of a position and the next
\* toggle of the same position for as long as nothing else changes the list:
\* index and orig are the position and the flag the first toggle saw, first and
\* second are "none", "sent" or "done", slot1 and slot2 the slots of the calls.
\* `created` collects the ids of the rows whose create succeeded.  `sequential`
\* holds for as long as every call was sent with no other call in flight, the
\* first fetch included, and the first fetch did not fail.
\* `pressed` keeps the button, of Pause and Reset, pressed last and the running
\* flag and elapsed value it found.
NoPair == [index |-> 0, orig |-> FALSE, first |-> "none", second |-> "none",
           slot1 |-> 0, slot2 |-> 0]

\* the slot the step released, or 0
released ==
  IF \E k \in Slots : reqs[k].op # "none" /\ reqs'[k].op = "none"
  THEN CHOOSE k \in Slots : reqs[k].op # "none" /\ reqs'[k].op = "none"
  ELSE 0

\* the slot the step filled, or 0
filled ==
  IF \E k \in Slots : reqs[k].op = "none" /\ reqs'[k].op # "none"
  THEN CHOOSE k \in Slots : reqs[k].op = "none" /\ reqs'[k].op # "none"
  ELSE 0

pairClosed == pair.first = "done" /\ pair.second = "done"

observePair ==
  IF last' = "toggleComplete"
  THEN LET i == reqs'[filled].index
       IN IF pair.first # "none" /\ pair.second = "none" /\ pair.index = i
          THEN [pair EXCEPT !.second = "sent", !.slot2 = filled]
          ELSE IF pair.first = "none" \/ pairClosed
          THEN [index |-> i, orig |-> todos[i + 1].completed, first |-> "sent",
                second |-> "none", slot1 |-> filled, slot2 |-> 0]
          ELSE pair
  ELSE IF last' = "toggleCompleteDone" /\ pair.first = "sent" /\ released = pair.slot1
  THEN [pair EXCEPT !.first = "done"]
  ELSE IF last' = "toggleCompleteDone" /\ pair.second = "sent" /\ released = pair.slot2
  THEN [pair EXCEPT !.second = "done"]
  ELSE IF last' = "toggleCompleteError" /\ pair.first = "sent" /\ released = pair.slot1
  THEN NoPair
  ELSE IF last' = "toggleCompleteError" /\ pair.second = "sent" /\ released = pair.slot2
  THEN NoPair
  ELSE IF todos' # todos
  THEN NoPair
  ELSE pair

\* every step of the list half ends with it
observe ==
  /\ deleted' = IF last' = "removeTodoDone" THEN deleted \cup {reqs[released].id}
                ELSE deleted
  /\ created' = IF last' = "addTodoDone" /\ mounted
                THEN created \cup {reqs[released].data[1].id}
                ELSE created
  /\ sequential' = IF filled # 0 /\ \E k \in Slots : reqs[k].op # "none" THEN FALSE
                   ELSE IF last' = "fetchTodosError" THEN FALSE
                   ELSE sequential
  /\ pair' = observePair
  /\ UNCHANGED pressed

\* every step of the timer half ends with it
observeTimers ==
  /\ pressed' = IF last' \in {"Pause", "Reset"}
                THEN [button |-> last', running |-> isRunning, elapsed |-> stopwatchTime]
                ELSE pressed
  /\ UNCHANGED historyVars

\* ------------------------------------------------------------------- Init
\* The state after the first render and its effects: the fetch is sent, the
\* clock is ticking, the stopwatch effect ran with isRunning = false.  The
\* table holds whatever earlier sessions left in it.
InitialTables ==
  {{},
   {Todo(1, <<"a">>, <<>>, FALSE, 0)},
   {Todo(1, <<"a">>, <<>>, FALSE, 0), Todo(2, <<"a", "a">>, <<"a">>, TRUE, 0)}}

Init ==
  /\ todos = <<>>
  /\ input = <<>>
  /\ description = <<>>
  /\ currentTime = 0
  /\ stopwatchTime = 0
  /\ isRunning = FALSE
  /\ display = formatStopwatch(0)
  /\ store \in InitialTables
  /\ nextId = Cardinality(store) + 1
  /\ reqs = [k \in Slots |-> IF k = 1 THEN FetchReq ELSE NoReq]
  /\ intervals = {[id |-> 1, cb |-> "clock"]}
  /\ clockInterval = 1
  /\ stopwatchInterval = 0
  /\ mounted = TRUE
  /\ calls = 1
  /\ deleted = {}
  /\ created = {}
  /\ sequential = TRUE
  /\ pair = NoPair
  /\ pressed = [button |-> "none", running |-> FALSE, elapsed |-> 0]
  /\ last = "mount"

\* a resumed handler has consumed its response
release(k) == reqs' = [reqs EXCEPT ![k] = NoReq] /\ UNCHANGED calls

\* ------------------------------------------------------- the text inputs
\* onChange of the title input
setInput(s) ==
  /\ mounted
  /\ s \in Inputs
  /\ input' = s
  /\ last' = "setInput"
  /\ UNCHANGED <<todos, description, reqs, calls, mounted>>
  /\ UNCHANGED <<storeVars, timerVars>>
  /\ observe

\* onChange of the description textarea
setDescription(d) ==
  /\ mounted
  /\ d \in Descriptions
  /\ description' = d
  /\ last' = "setDescription"
  /\ UNCHANGED <<todos, input, reqs, calls, mounted>>
  /\ UNCHANGED <<storeVars, timerVars>>
  /\ observe

\* ------------------------------------------------------------ the handlers
\* (mutant) a guard that forgets to trim
hasTitleUntrimmed(s) == s # <<>>

\* the guard of addTodo: input.trim() !== ''
hasTitle(s) == trim(s) # <<>>

\* addTodo up to its await: nothing happens for a blank title, otherwise the
\* insert is sent with what the handler closed over
addTodo ==
  /\ mounted
  /\ IF hasTitle(input)
     THEN \E time \in Times : send(AddReq(todos, trim(input), trim(description), time))
     ELSE UNCHANGED <<reqs, calls>>
  /\ last' = "addTodo"
  /\ UNCHANGED <<listVars, mounted>>
  /\ UNCHANGED <<storeVars, timerVars>>
  /\ observe

\* (mutant) a create that puts the new row at the end of the list
addTodoListAppends(r) == r.todos \o r.data

\* the list addTodo sets: [...data, ...todos], todos being the closed-over list
addTodoList(r) == r.data \o r.todos

\* addTodo after its await, no error: the list and both inputs are set
addTodoDone(k) ==
  /\ reqs[k].op = "add" /\ reqs[k].phase = "ok"
  /\ release(k)
  /\ last' = "addTodoDone"
  /\ IF mounted
     THEN /\ setTodos(addTodoList(reqs[k]))
          /\ input' = <<>>
          /\ description' = <<>>
     ELSE UNCHANGED <<listVars, mounted, intervals>>
  /\ UNCHANGED <<storeVars, currentTime, stopwatchTime, isRunning, display,
                 clockInterval, stopwatchInterval>>
  /\ observe

\* (mutant) an error branch that also empties the title input
logErrorAndClear(name, k) ==
  /\ release(k)
  /\ last' = name
  /\ input' = <<>>
  /\ UNCHANGED <<todos, description, mounted>>
  /\ UNCHANGED <<storeVars, timerVars>>
  /\ observe

\* what a handler does after its await when the store reported an error:
\* console.error, and nothing else
logError(name, k) ==
  /\ release(k)
  /\ last' = name
  /\ UNCHANGED <<listVars, mounted>>
  /\ UNCHANGED <<storeVars, timerVars>>
  /\ observe

addTodoError(k) ==
  /\ reqs[k].op = "add" /\ reqs[k].phase = "error"
  /\ logError("addTodoError", k)

\* fetchTodos after its await
fetchTodosDone(k) ==
  /\ reqs[k].op = "fetch" /\ reqs[k].phase = "ok"
  /\ release(k)
  /\ last' = "fetchTodosDone"
  /\ IF mounted
     THEN setTodos(reqs[k].data)
     ELSE UNCHANGED <<todos, mounted, intervals>>
  /\ UNCHANGED <<input, description, storeVars, currentTime, stopwatchTime, isRunning,
                 display, clockInterval, stopwatchInterval>>
  /\ observe

fetchTodosError(k) ==
  /\ reqs[k].op = "fetch" /\ reqs[k].phase = "error"
  /\ logError("fetchTodosError", k)

\* toggleComplete(index) up to its await; the rows on screen are the indices
toggleComplete(index) ==
  /\ mounted
  /\ index \in 0..(Len(todos) - 1)
  /\ send(ToggleReq(todos, index))
  /\ last' = "toggleComplete"
  /\ UNCHANGED <<listVars, mounted>>
  /\ UNCHANGED <<storeVars, timerVars>>
  /\ observe

\* (data as Todo[])[0]
firstRow(data) == IF Len(data) > 0 THEN data[1] ELSE Undefined

\* the list toggleComplete sets: a copy of the closed-over list with
\* updatedTodos[index] = data[0]
toggleCompleteList(r) == [r.todos EXCEPT ![r.index + 1] = firstRow(r.data)]

toggleCompleteDone(k) ==
  /\ reqs[k].op = "toggle" /\ reqs[k].phase = "ok"
  /\ release(k)
  /\ last' = "toggleCompleteDone"
  /\ IF mounted
     THEN setTodos(toggleCompleteList(reqs[k]))
     ELSE UNCHANGED <<todos, mounted, intervals>>
  /\ UNCHANGED <<input, description, storeVars, currentTime, stopwatchTime, isRunning,
                 display, clockInterval, stopwatchInterval>>
  /\ observe

toggleCompleteError(k) ==
  /\ reqs[k].op = "toggle" /\ reqs[k].phase = "error"
  /\ logError("toggleCompleteError", k)

\* (mutant) a removeTodo that takes the row off the list before the store answers
removeTodoOptimistic(index) ==
  /\ mounted
  /\ index \in 0..(Len(todos) - 1)
  /\ send(RemoveReq(todos, index))
  /\ last' = "removeTodo"
  /\ todos' = SubSeq(todos, 1, index) \o SubSeq(todos, index + 2, Len(todos))
  /\ UNCHANGED <<input, description, mounted>>
  /\ UNCHANGED <<storeVars, timerVars>>
  /\ observe

\* removeTodo(index) up to its await
removeTodo(index) ==
  /\ mounted
  /\ index \in 0..(Len(todos) - 1)
  /\ send(RemoveReq(todos, index))
  /\ last' = "removeTodo"
  /\ UNCHANGED <<listVars, mounted>>
  /\ UNCHANGED <<storeVars, timerVars>>
  /\ observe

\* todos.filter((_, i) => i !== index)
RECURSIVE filterIndex(_, _)
filterIndex(list, index) ==
  IF list = <<>> THEN <<>>
  ELSE IF index = 0 THEN Tail(list)
  ELSE <<Head(list)>> \o filterIndex(Tail(list), index - 1)

\* (mutant) a delete that drops the first row of the list, whatever the index
removeTodoListFirst(r) == Tail(r.todos)

\* the list removeTodo sets, from the closed-over list
removeTodoList(r) == filterIndex(r.todos, r.index)

removeTodoDone(k) ==
  /\ reqs[k].op = "remove" /\ reqs[k].phase = "ok"
  /\ release(k)
  /\ last' = "removeTodoDone"
  /\ IF mounted
     THEN setTodos(removeTodoList(reqs[k]))
     ELSE UNCHANGED <<todos, mounted, intervals>>
  /\ UNCHANGED <<input, description, storeVars, currentTime, stopwatchTime, isRunning,
                 display, clockInterval, stopwatchInterval>>
  /\ observe

removeTodoError(k) ==
  /\ reqs[k].op = "remove" /\ reqs[k].phase = "error"
  /\ logError("removeTodoError", k)

\* --------------------------------------------------------------- the store
\* The remote table serves a call that was sent: the response waits in the
\* slot until the handler resumes.
respond(k, data) ==
  /\ reqs' = [reqs EXCEPT ![k].phase = "ok", ![k].data = data]
  /\ UNCHANGED calls

\* .select('*').order('id', { ascending: false })
storeSelect(k) ==
  /\ reqs[k].op = "fetch" /\ reqs[k].phase = "sent"
  /\ respond(k, orderByIdDesc(store))
  /\ last' = "storeSelect"
  /\ UNCHANGED <<listVars, mounted, storeVars, timerVars>>
  /\ observe

\* .insert([{ text, description, completed: false, time }]).select()
storeInsert(k) ==
  /\ reqs[k].op = "add" /\ reqs[k].phase = "sent"
  /\ LET row == Todo(nextId, reqs[k].text, reqs[k].description, FALSE, reqs[k].time)
     IN /\ store' = store \cup {row}
        /\ respond(k, <<row>>)
  /\ nextId' = nextId + 1
  /\ last' = "storeInsert"
  /\ UNCHANGED <<listVars, mounted, timerVars>>
  /\ observe

\* .update({ completed }).eq('id', id).select(): the rows updated are echoed
storeUpdate(k) ==
  /\ reqs[k].op = "toggle" /\ reqs[k].phase = "sent"
  /\ LET hit == {r \in store : r.id = reqs[k].id}
         updated == {[r EXCEPT !.completed = reqs[k].completed] : r \in hit}
     IN /\ store' = (store \ hit) \cup updated
        /\ respond(k, orderByIdDesc(updated))
  /\ last' = "storeUpdate"
  /\ UNCHANGED <<listVars, mounted, nextId, timerVars>>
  /\ observe

\* .delete().eq('id', id)
storeDelete(k) ==
  /\ reqs[k].op = "remove" /\ reqs[k].phase = "sent"
  /\ store' = {r \in store : r.id # reqs[k].id}
  /\ respond(k, <<>>)
  /\ last' = "storeDelete"
  /\ UNCHANGED <<listVars, mounted, nextId, timerVars>>
  /\ observe

\* the call fails: { error } comes back and the table is as it was
storeError(k) ==
  /\ reqs[k].op # "none" /\ reqs[k].phase = "sent"
  /\ reqs' = [reqs EXCEPT ![k].phase = "error"]
  /\ UNCHANGED calls
  /\ last' = "storeError"
  /\ UNCHANGED <<listVars, mounted, storeVars, timerVars>>
  /\ observe

\* -------------------------------------------------------------- the timers
\* the clock's interval callback: setCurrentTime(new Date())
clockTick ==
  /\ \E t \in intervals : t.cb = "clock"
  /\ \E now \in ClockTimes : currentTime' = IF mounted THEN now ELSE currentTime
  /\ last' = "clockTick"
  /\ UNCHANGED <<listVars, reqVars, mounted, storeVars, stopwatchTime, isRunning,
                 intervals, clockInterval, stopwatchInterval>>
  /\ render
  /\ observeTimers

\* the stopwatch's interval callback: setStopwatchTime(prev => prev + 1)
stopwatchTick ==
  /\ \E t \in intervals : t.cb = "stopwatch"
  /\ stopwatchTime < MaxElapsed
  /\ stopwatchTime' = IF mounted THEN stopwatchTime + 1 ELSE stopwatchTime
  /\ last' = "stopwatchTick"
  /\ UNCHANGED <<listVars, reqVars, mounted, storeVars, currentTime, isRunning,
                 intervals, clockInterval, stopwatchInterval>>
  /\ render
  /\ observeTimers

\* (mutant) a Start button that also zeroes the elapsed value
StartRestarts ==
  /\ mounted
  /\ HasFreeTimer(stopwatchCleanup(intervals, stopwatchInterval))
  /\ setIsRunning(TRUE)
  /\ stopwatchTime' = 0
  /\ last' = "Start"
  /\ UNCHANGED <<listVars, reqVars, mounted, storeVars, currentTime, clockInterval>>
  /\ render
  /\ observeTimers

\* the Start button: setIsRunning(true)
Start ==
  /\ mounted
  /\ HasFreeTimer(stopwatchCleanup(intervals, stopwatchInterval))
  /\ setIsRunning(TRUE)
  /\ last' = "Start"
  /\ UNCHANGED <<listVars, reqVars, mounted, storeVars, currentTime, stopwatchTime,
                 clockInterval>>
  /\ render
  /\ observeTimers

\* the Pause button: setIsRunning(false)
Pause ==
  /\ mounted
  /\ setIsRunning(FALSE)
  /\ last' = "Pause"
  /\ UNCHANGED <<listVars, reqVars, mounted, storeVars, currentTime, stopwatchTime,
                 clockInterval>>
  /\ render
  /\ observeTimers

\* the Reset button: setIsRunning(false); setStopwatchTime(0)
Reset ==
  /\ mounted
  /\ setIsRunning(FALSE)
  /\ stopwatchTime' = 0
  /\ last' = "Reset"
  /\ UNCHANGED <<listVars, reqVars, mounted, storeVars, currentTime, clockInterval>>
  /\ render
  /\ observeTimers

\* the view is torn down
unmount ==
  /\ mounted
  /\ teardown
  /\ last' = "unmount"
  /\ UNCHANGED <<listVars, reqVars, storeVars, currentTime, stopwatchTime, isRunning, display,
                 clockInterval, stopwatchInterval>>
  /\ observeTimers

\* ------------------------------------------------------- the specification
Next ==
  \/ \E s \in Inputs : setInput(s)
  \/ \E d \in Descriptions : setDescription(d)
  \/ addTodo
  \/ \E index \in 0..(Len(todos) - 1) : toggleComplete(index)
  \/ \E index \in 0..(Len(todos) - 1) : removeTodo(index)
  \/ \E k \in Slots : fetchTodosDone(k)
  \/ \E k \in Slots : fetchTodosError(k)
  \/ \E k \in Slots : addTodoDone(k)
  \/ \E k \in Slots : addTodoError(k)
  \/ \E k \in Slots : toggleCompleteDone(k)
  \/ \E k \in Slots : toggleCompleteError(k)
  \/ \E k \in Slots : removeTodoDone(k)
  \/ \E k \in Slots : removeTodoError(k)
  \/ \E k \in Slots : storeSelect(k)
  \/ \E k \in Slots : storeInsert(k)
  \/ \E k \in Slots : storeUpdate(k)
  \/ \E k \in Slots : storeDelete(k)
  \/ \E k \in Slots : storeError(k)
  \/ clockTick
  \/ stopwatchTick
  \/ Start
  \/ Pause
  \/ Reset
  \/ unmount

\* the whole program; too large to explore in one run
Spec == Init /\ [][Next]_vars

\* The list and the timers share no state but `mounted`: each half is also
\* explored on its own, the other half standing still.
NextTodos ==
  \/ \E s \in Inputs : setInput(s)
  \/ \E d \in Descriptions : setDescription(d)
  \/ addTodo
  \/ \E index \in 0..(Len(todos) - 1) : toggleComplete(index)
  \/ \E index \in 0..(Len(todos) - 1) : removeTodo(index)
  \/ \E k \in Slots : fetchTodosDone(k)
  \/ \E k \in Slots : fetchTodosError(k)
  \/ \E k \in Slots : addTodoDone(k)
  \/ \E k \in Slots : addTodoError(k)
  \/ \E k \in Slots : toggleCompleteDone(k)
  \/ \E k \in Slots : toggleCompleteError(k)
  \/ \E k \in Slots : removeTodoDone(k)
  \/ \E k \in Slots : removeTodoError(k)
  \/ \E k \in Slots : storeSelect(k)
  \/ \E k \in Slots : storeInsert(k)
  \/ \E k \in Slots : storeUpdate(k)
  \/ \E k \in Slots : storeDelete(k)
  \/ \E k \in Slots : storeError(k)

SpecTodos == Init /\ [][NextTodos]_vars

NextTimers ==
  \/ clockTick
  \/ stopwatchTick
  \/ Start
  \/ Pause
  \/ Reset
  \/ unmount

SpecTimers == Init /\ [][NextTimers]_vars

\* The stopwatch text for large elapsed values: the stopwatch has run for any
\* number of seconds up to MaxSeconds and was paused, and the timer half goes
\* on from there.
InitFormat ==
  /\ todos = <<>>
  /\ input = <<>>
  /\ description = <<>>
  /\ currentTime = 0
  /\ stopwatchTime \in 0..MaxSeconds
  /\ isRunning = FALSE
  /\ display = formatStopwatch(stopwatchTime)
  /\ store = {}
  /\ nextId = 1
  /\ reqs = [k \in Slots |-> IF k = 1 THEN FetchReq ELSE NoReq]
  /\ intervals = {[id |-> 1, cb |-> "clock"]}
  /\ clockInterval = 1
  /\ stopwatchInterval = 0
  /\ mounted = TRUE
  /\ calls = 1
  /\ deleted = {}
  /\ created = {}
  /\ sequential = TRUE
  /\ pair = NoPair
  /\ pressed = [button |-> "Pause", running |-> TRUE, elapsed |-> stopwatchTime]
  /\ last = "Pause"

SpecFormat == InitFormat /\ [][NextTimers]_vars

\* ================================================================== claims
\* the step resumed, without error, the handler of the call in slot k
resumed(name, k) ==
  /\ last' = name
  /\ reqs[k].phase = "ok"
  /\ reqs'[k].op = "none"
  /\ mounted

\* the list without its j-th element (j counted from 1)
without(list, j) == SubSeq(list, 1, j - 1) \o SubSeq(list, j + 1, Len(list))

\* C1: with calls overlapping, each successful completion applies only its own
\* effect to the list as it is when the call completes: a create prepends its
\* row to the current list, a toggle replaces one record of the current list,
\* a delete removes one record from the current list.  Stated for the calls
\* sent after the first fetch has resumed and, for a toggle, echoed with a row.
C1_OwnEffectOnCurrentList ==
  [][\A k \in Slots :
       LET inList == {j \in 1..Len(todos) : todos[j].id = reqs[k].id}
       IN /\ (resumed("addTodoDone", k) /\ reqs[k].loaded) =>
               todos' = reqs[k].data \o todos
          /\ (resumed("toggleCompleteDone", k) /\ reqs[k].loaded /\ Len(reqs[k].data) > 0) =>
               IF inList = {} THEN todos' = todos
               ELSE \E j \in inList : todos' = [todos EXCEPT ![j] = firstRow(reqs[k].data)]
          /\ (resumed("removeTodoDone", k) /\ reqs[k].loaded) =>
               IF inList = {} THEN todos' = todos
               ELSE \E j \in inList : todos' = without(todos, j)]_vars

\* C2: a successful create of a non-blank title leaves the list with exactly
\* one more record than it had before the completion, and that record carries
\* the trimmed title and completed = false.  Stated for the creates whose row
\* is not in the list yet when they complete.
C2_CreateAddsOneRecord ==
  [][\A k \in Slots :
       (resumed("addTodoDone", k) /\ \A j \in 1..Len(todos) : todos[j].id # reqs[k].data[1].id) =>
         /\ Len(todos') = Len(todos) + 1
         /\ \E j \in 1..Len(todos') :
              /\ todos'[j].text = reqs[k].text
              /\ todos'[j].completed = FALSE
              /\ without(todos', j) = todos]_vars

\* C3: a successful delete removes from the list exactly the record that was
\* at position index when the user clicked, the length drops by one and the
\* other records keep their order.  Stated for the deletes whose record is
\* still in the list when they complete.
C3_DeleteRemovesOneRecord ==
  [][\A k \in Slots :
       LET clicked == reqs[k].todos[reqs[k].index + 1]
       IN (resumed("removeTodoDone", k) /\ \E j \in 1..Len(todos) : todos[j].id = clicked.id) =>
            \E j \in 1..Len(todos) :
              /\ todos[j].id = clicked.id
              /\ todos' = without(todos, j)]_vars

\* C4: once the delete of a record has succeeded, no fetch result puts that
\* record's id back into the list.
C4_DeletedNeverReloaded ==
  (mounted /\ last = "fetchTodosDone") =>
    \A j \in 1..Len(todos) : todos[j].id \notin deleted

\* C5: a failed call leaves the list and both inputs as they were and sends
\* nothing again; the inputs are emptied only by a successful create (any other
\* change of them is the user typing).
Failures == {"fetchTodosError", "addTodoError", "toggleCompleteError", "removeTodoError"}

C5_FailureChangesNothing ==
  [][/\ last' \in Failures \cup {"storeError"} =>
          /\ todos' = todos
          /\ input' = input
          /\ description' = description
          /\ store' = store
          /\ calls' = calls
          /\ \A k \in Slots : reqs'[k].phase # "sent" \/ reqs'[k] = reqs[k]
     /\ (input' # input /\ last' # "setInput") => last' = "addTodoDone"
     /\ (description' # description /\ last' # "setDescription") => last' = "addTodoDone"
    ]_vars

C5_Witness ==
  /\ last = "addTodoError"
  /\ input = <<" ", "a">>
  /\ description # <<>>
  /\ Len(todos) > 0
  /\ \A k \in Slots : reqs[k].op = "none"

\* C6: addTodo with an empty or all-blank title sends nothing and leaves the
\* list and both inputs as they were.
blank(s) == \A i \in 1..Len(s) : s[i] = " "

C6_BlankTitleDoesNothing ==
  [][last' = "addTodo" /\ blank(input) =>
       /\ reqs' = reqs
       /\ calls' = calls
       /\ store' = store
       /\ todos' = todos
       /\ input' = input
       /\ description' = description]_vars

C6_Witness ==
  /\ last = "addTodo"
  /\ input = <<" ", " ">>
  /\ description # <<>>
  /\ \A k \in Slots : reqs[k].op = "none"

\* C7: a toggle of a position followed by a toggle of the same position, with
\* no other change of the list in between and both succeeding, brings the
\* record's completion flag back to what it was, in the list and in the store.
C7_ToggleTwiceRestores ==
  (mounted /\ pairClosed /\ last = "toggleCompleteDone") =>
    /\ todos[pair.index + 1].completed = pair.orig
    /\ \A r \in store : r.id = todos[pair.index + 1].id => r.completed = pair.orig

\* C8: a successful toggle replaces only the record at its position by the row
\* the store echoed, which has the same id and the flag flipped (from what the
\* user clicked on); the other positions, the length and the order stay.  Stated for the toggles whose
\* update the store echoed with a row.
C8_ToggleReplacesOnlyItsPosition ==
  [][\A k \in Slots :
       (resumed("toggleCompleteDone", k) /\ Len(reqs[k].data) > 0) =>
         LET p == reqs[k].index + 1
         IN /\ Len(todos') = Len(todos)
            /\ p <= Len(todos)
            /\ todos'[p] = firstRow(reqs[k].data)
            /\ todos'[p].id = todos[p].id
            /\ todos'[p].completed = ~reqs[k].todos[p].completed
            /\ \A j \in 1..Len(todos) : j # p => todos'[j] = todos[j]]_vars

\* C9: Reset, whatever the stopwatch was doing, leaves elapsed 0 and the
\* stopwatch stopped, and from a stopped stopwatch at 0 nothing but Start
\* moves it: no tick comes after the Reset.
C9_ResetZeroes ==
  [][/\ last' = "Reset" => stopwatchTime' = 0 /\ ~isRunning'
     /\ (~isRunning /\ stopwatchTime = 0 /\ last' # "Start") =>
          stopwatchTime' = 0 /\ ~isRunning']_vars

C9_Witness ==
  /\ last = "Reset"
  /\ pressed.running
  /\ pressed.elapsed > 1
  /\ stopwatchTime = 0
  /\ ~isRunning
  /\ mounted
  /\ ~\E t \in intervals : t.cb = "stopwatch"

\* C10: Pause stops the stopwatch and keeps elapsed; while stopped, elapsed
\* changes only by Reset; Start keeps the value and every tick adds exactly 1.
C10_PauseRetains ==
  [][/\ last' = "Pause" => ~isRunning' /\ stopwatchTime' = stopwatchTime
     /\ (~isRunning /\ last' \notin {"Start", "Reset"}) =>
          stopwatchTime' = stopwatchTime /\ ~isRunning'
     /\ last' = "Start" => isRunning' /\ stopwatchTime' = stopwatchTime
     /\ (last' = "stopwatchTick" /\ mounted) =>
          isRunning /\ stopwatchTime' = stopwatchTime + 1]_vars

C10_Witness ==
  /\ last = "stopwatchTick"
  /\ isRunning
  /\ pressed.button = "Pause"
  /\ pressed.running
  /\ pressed.elapsed > 0
  /\ stopwatchTime = pressed.elapsed + 1
  /\ mounted

\* the number a string of decimal digits stands for
RECURSIVE valueOf(_)
valueOf(s) ==
  IF s = <<>> THEN 0
  ELSE 10 * valueOf(SubSeq(s, 1, Len(s) - 1))
       + (CHOOSE d \in 0..9 : DigitChars[d + 1] = s[Len(s)])

isDigits(s) == \A i \in 1..Len(s) : \E d \in 0..9 : DigitChars[d + 1] = s[i]

\* C11: the stopwatch text shows elapsed as minutes ':' seconds, the minutes
\* being floor(elapsed / 60) without wrapping at 60 and the seconds being
\* elapsed mod 60, each in decimal digits padded with zeros to two digits and
\* no further; 0 shows "00:00", 65 "01:05", 3599 "59:59" and 3600 "60:00".
C11_FormatMinutesSeconds ==
  mounted =>
    /\ \E p \in 1..Len(display) :
         LET m == SubSeq(display, 1, p - 1)
             s == SubSeq(display, p + 1, Len(display))
         IN /\ display[p] = ":"
            /\ isDigits(m) /\ isDigits(s)
            /\ valueOf(m) = stopwatchTime \div 60
            /\ valueOf(s) = stopwatchTime % 60
            /\ Len(s) = 2
            /\ Len(m) >= 2
            /\ Len(m) > 2 => m[1] # "0"
    /\ stopwatchTime = 0 => display = <<"0", "0", ":", "0", "0">>
    /\ stopwatchTime = 65 => display = <<"0", "1", ":", "0", "5">>
    /\ stopwatchTime = 3599 => display = <<"5", "9", ":", "5", "9">>
    /\ stopwatchTime = 3600 => display = <<"6", "0", ":", "0", "0">>

C11_Witness ==
  /\ mounted
  /\ stopwatchTime = 3600
  /\ isRunning
  /\ last = "Start"
  /\ display = <<"6", "0", ":", "0", "0">>

\* C12: the list changes only in the step in which a handler resumes with a
\* successful response: sending a create, toggle or delete leaves the list as
\* it is, and so does the store serving the call.
Sends == {"addTodo", "toggleComplete", "removeTodo"}
Serves == {"storeSelect", "storeInsert", "storeUpdate", "storeDelete", "storeError"}
Completions == {"fetchTodosDone", "addTodoDone", "toggleCompleteDone", "removeTodoDone"}

C12_NoOptimisticUpdate ==
  [][/\ last' \in Sends \cup Serves => todos' = todos
     /\ todos' # todos =>
          /\ last' \in Completions
          /\ \E k \in Slots : reqs[k].phase = "ok" /\ reqs'[k].op = "none"]_vars

\* a delete the store has served and the handler has not resumed from yet:
\* the row is gone from the table and still in the list
C12_Witness ==
  /\ last = "storeDelete"
  /\ mounted
  /\ \E k \in Slots :
       /\ reqs[k].op = "remove" /\ reqs[k].phase = "ok" /\ reqs[k].loaded
       /\ reqs[k].todos = todos
       /\ \E j \in 1..Len(todos) : todos[j].id = reqs[k].id
       /\ \A r \in store : r.id # reqs[k].id

\* C13: whatever calls have completed and in whatever order, the records of
\* the list carry pairwise distinct ids and stand in strictly descending order
\* of id (an element that is no record has no id and is passed over).
idsOf(list) == SelectSeq([i \in 1..Len(list) |-> IF list[i].undefined THEN 0 ELSE list[i].id],
                         LAMBDA n : n # 0)

C13_DistinctDescendingIds ==
  LET listIds == idsOf(todos)
  IN \A i, j \in 1..Len(listIds) : i < j => listIds[i] > listIds[j]

\* two creates have completed on top of a loaded row
C13_Witness ==
  /\ mounted
  /\ last = "addTodoDone"
  /\ Len(todos) = 3
  /\ calls = MaxCalls
  /\ \A k \in Slots : reqs[k].op = "none"

\* C14: every element of the list is a record, and the view stays mounted:
\* no completion of a toggle puts an undefined element into the list.
C14_NoUndefinedRecord ==
  /\ \A i \in 1..Len(todos) : ~todos[i].undefined
  /\ mounted

\* C15: when the first fetch succeeded before any other call and no two calls
\* ever overlapped, then in every state with no call in flight the list is the
\* table's rows in descending order of id.
C15_CacheEqualsStore ==
  (sequential /\ \A k \in Slots : reqs[k].op = "none") =>
    todos = orderByIdDesc(store)

\* a create and then a delete of the older row, one after the other
C15_Witness ==
  /\ sequential
  /\ mounted
  /\ \A k \in Slots : reqs[k].op = "none"
  /\ last = "removeTodoDone"
  /\ created # {}
  /\ deleted # {} /\ deleted \cap created = {}
  /\ Len(todos) = 2
  /\ calls = MaxCalls

\* C16: a record whose create has succeeded is in the list for as long as no
\* delete of it has succeeded, whatever the order in which responses arrive.
C16_CreatedRecordStays ==
  mounted =>
    \A id \in created \ deleted : \E j \in 1..Len(todos) : todos[j].id = id

\* C17: elapsed is a non-negative integer; a step leaves it as it is, or adds
\* exactly 1 (a tick, the stopwatch running), or sets it to 0 (Reset); Start
\* and Pause never change it.
C17_ElapsedSteps ==
  [][/\ stopwatchTime \in Nat /\ stopwatchTime' \in Nat
     /\ \/ stopwatchTime' = stopwatchTime
        \/ stopwatchTime' = stopwatchTime + 1 /\ last' = "stopwatchTick" /\ isRunning
        \/ stopwatchTime' = 0 /\ last' = "Reset"
     /\ last' \in {"Start", "Pause"} => stopwatchTime' = stopwatchTime]_vars

\* the second tick after a Reset that found the stopwatch running
C17_Witness ==
  /\ last = "stopwatchTick"
  /\ stopwatchTime = 2
  /\ pressed.button = "Reset" /\ pressed.running /\ pressed.elapsed > 0
  /\ isRunning
  /\ mounted

\* C18: there is never more than one stopwatch interval, and there is one
\* exactly when the stopwatch is running and the view is mounted; Start
\* pressed while running leaves the timers as they are, and a tick adds no
\* more than 1.
stopwatchTimers(S) == {t \in S : t.cb = "stopwatch"}

C18_OneStopwatchTimer ==
  [][/\ Cardinality(stopwatchTimers(intervals)) <= 1
     /\ Cardinality(stopwatchTimers(intervals')) <= 1
     /\ stopwatchTimers(intervals) # {} <=> (isRunning /\ mounted)
     /\ stopwatchTimers(intervals') # {} <=> (isRunning' /\ mounted')
     /\ (last' = "Start" /\ isRunning) =>
          intervals' = intervals /\ stopwatchInterval' = stopwatchInterval
     /\ last' = "stopwatchTick" => stopwatchTime' <= stopwatchTime + 1]_vars

\* Start pressed with the stopwatch running: it has ticked and was never
\* paused or reset
C18_Witness ==
  /\ last = "Start"
  /\ pressed.button = "none"
  /\ stopwatchTime > 0
  /\ isRunning
  /\ mounted
  /\ Cardinality(stopwatchTimers(intervals)) = 1

\* C19: after the view is torn down no interval is left, so no clock tick
\* and no stopwatch tick runs on an unmounted view; and a change of the
\* running flag cancels the interval the stopwatch effect held, the only
\* stopwatch interval afterwards being the one the effect has just created.
C19_TimersCancelled ==
  [][/\ ~mounted' => intervals' = {}
     /\ last' \in {"clockTick", "stopwatchTick"} => mounted
     /\ isRunning' # isRunning =>
          /\ stopwatchInterval # 0 => stopwatchInterval \notin ids(intervals')
          /\ stopwatchTimers(intervals') =
               IF isRunning' THEN {[id |-> stopwatchInterval', cb |-> "stopwatch"]} ELSE {}]_vars

\* the view torn down while the stopwatch was running
C19_Witness ==
  /\ last = "unmount"
  /\ ~mounted
  /\ isRunning
  /\ stopwatchTime > 0
  /\ stopwatchInterval # 0
  /\ intervals = {}

====
